---- MODULE Spec2Model ----
(***************************************************************************)
(* Model of the log-ingestion pipeline of logparse.py (class LogData and   *)
(* the part of main() that drives it): the persisted dataset, one process  *)
(* run at a time (construct, read_logs file by file, merge, write), and    *)
(* the text-level helpers (regular expressions, filters, sort, dedup).     *)
(*                                                                         *)
(* Text is modelled as sequences of tokens, so that the regular            *)
(* expressions of the source act on separators ("/", "-") and on the       *)
(* archive suffix as they do on characters.                                *)
(***************************************************************************)
EXTENDS Integers, Sequences, FiniteSets, TLC

VARIABLES
    disk,          \* dataset name -> the file stored under it
    pc,            \* position of the running process in main()
    dataset_name,  \* self.dataset_name
    dataset,       \* self.dataset (self.hashes aliases dataset.file_hashes)
    data,          \* self.data
    logs,          \* sorted(logs) of the current read_logs call
    idx,           \* position of the for loop of read_logs in logs
    newdata,       \* newdata of read_logs
    err,           \* the exception that ended the run, "" when none
    unparseable,   \* the count printed by the last process_lines
    ignore_hosts,  \* self.ignore_hosts
    names,         \* the dataset names the invocations are given
    paths,         \* the log files the invocations are given
    hostlists,     \* the --ignorehosts values the invocations are given
    oldfiles,      \* the old-format files dataframe.dat and parsed_files.dat
    writes,        \* history: calls of write_dataset in the current run
    loaded,        \* history: the dataset as __init__ obtained it
    disk0,         \* history: the file under dataset_name when the run began
    written,       \* history: per dataset name, the dataset last written
    fed            \* history: per dataset name, the files of completed runs

vars == <<disk, pc, dataset_name, dataset, data, logs, idx, newdata, err,
          unparseable, ignore_hosts, names, paths, hostlists, oldfiles, writes, loaded,
          disk0, written, fed>>

\* Largest number of files one invocation passes to read_logs.
MaxBatch == 2

(***************************************************************************)
(* Generic sequence helpers.                                               *)
(***************************************************************************)
Range(s) == {s[i] : i \in 1..Len(s)}

Positions(s, tok) == {i \in 1..Len(s) : s[i] = tok}

SetMin(S) == CHOOSE x \in S : \A y \in S : x <= y

SetMax(S) == CHOOSE x \in S : \A y \in S : x >= y

RECURSIVE SortedSeq(_)
\* sorted(logs): the elements of a set of path ranks in ascending order.
SortedSeq(S) ==
    IF S = {} THEN <<>>
    ELSE LET m == SetMin(S) IN <<m>> \o SortedSeq(S \ {m})

(***************************************************************************)
(* Request paths and the log lines of the sample files.                    *)
(***************************************************************************)
\* "/<channel>/linux-64/<filename>" as tokens.
MkPath(chan, file) == <<"/">> \o chan \o <<"/", "linux", "-", "64", "/">> \o file

NumpyBase == <<"numpy", "-", "base", "-", "1.21.0", "-", "py39h", ".tar.bz2">>

Astropy == <<"astropy", "-", "4.0", "-", "py38", ".tar.bz2">>

Repodata == <<"repodata", ".json">>

MkLine(ip, date, time, path, status, size) ==
    [decodable |-> TRUE, matches |-> TRUE, dateok |-> TRUE,
     ipaddress |-> ip, date |-> date, time |-> time, path |-> path,
     status |-> status, size |-> size]

\* size -1 stands for an empty size group (the pattern is \d*).
NoSize == -1

LnNew == MkLine(1, 2, 5, MkPath(<<"astroconda">>, NumpyBase), "200", 10)

LnOld == MkLine(1, 1, 7, MkPath(<<"astroconda">>, Astropy), "302", 20)

LnEarly == MkLine(3, 2, 3, MkPath(<<"astroconda">>, Astropy), "200", 20)

Ln404 == MkLine(2, 2, 6, MkPath(<<"astroconda">>, Astropy), "404", 0)

LnDev == MkLine(2, 2, 4, MkPath(<<"conda", "-", "dev">>, Astropy), "200", 20)

LnAstroDev == MkLine(2, 2, 4, MkPath(<<"astroconda", "-", "dev">>, Astropy), "200", 20)

LnRepodata == MkLine(1, 2, 5, MkPath(<<"astroconda">>, Repodata), "200", 30)

LnNoMatch == [LnNew EXCEPT !.matches = FALSE]

LnNoSize == [LnEarly EXCEPT !.size = NoSize]

LnBadDate == [LnNew EXCEPT !.dateok = FALSE]

LnUndecodable == [LnNew EXCEPT !.decodable = FALSE]

(***************************************************************************)
(* The file system the invocations see.  A blob is the bytes of a file;    *)
(* a path has a rank (its place in sorted order), a name that does or      *)
(* does not contain ".gz", and the blob stored under it.                   *)
(***************************************************************************)
BlobTable ==
    << [gzip |-> FALSE, lines |-> <<LnNew, Ln404, LnNoMatch>>],
       [gzip |-> FALSE, lines |-> <<LnOld, LnNew>>],
       [gzip |-> TRUE,  lines |-> <<LnDev, LnAstroDev, LnRepodata>>],
       [gzip |-> FALSE, lines |-> <<LnEarly, LnNoSize>>],
       [gzip |-> FALSE, lines |-> <<LnBadDate>>],
       [gzip |-> TRUE,  lines |-> <<LnUndecodable>>] >>

MkFile(gzname, access, blob) == [gzname |-> gzname, access |-> access, blob |-> blob]

FileSystem ==
    << MkFile(FALSE, "ok", 1),
       MkFile(FALSE, "ok", 2),
       MkFile(TRUE,  "ok", 3),
       MkFile(FALSE, "denied", 1),
       MkFile(FALSE, "ok", 4),
       MkFile(TRUE,  "ok", 2),
       MkFile(FALSE, "ok", 5),
       MkFile(TRUE,  "ok", 6),
       MkFile(FALSE, "ok", 1) >>

Paths == 1..Len(FileSystem)

Names == {"a", "b"}

\* args.ignorehosts: None when the option is not given, else a list of
\* address strings.
NoHosts == [given |-> FALSE, hosts |-> <<>>]

HostList(hosts) == [given |-> TRUE, hosts |-> hosts]

HostLists == {NoHosts, HostList(<<3, 2>>)}

\* The files of the two-name comparison: three that parse and one that does not.
TwinPaths == {1, 2, 3, 5}

\* The log files given to the runs that may be stopped from outside.
CrashPaths == {1, 2, 4, 5}

(***************************************************************************)
(* The persisted file and the dataset dict.                                *)
(***************************************************************************)
\* {'dataframe': pd.DataFrame(self.columns), 'file_hashes': []}
EmptyDataset == [dataframe |-> <<>>, file_hashes |-> <<>>]

\* No file under the name / a file with the given bytes.
Absent == [exists |-> FALSE, bytes |-> <<>>]

StoredFile(bytes) == [exists |-> TRUE, bytes |-> bytes]

\* Variant: only the table is pickled, the hash list is left out.
PickleDumpFrameOnly(ds) == <<[obj |-> "dict", dataframe |-> ds.dataframe, file_hashes |-> <<>>]>>

\* pickle.dump(self.dataset, f): the dict goes out as one pickled object.
PickleDump(ds) == <<[obj |-> "dict", dataframe |-> ds.dataframe, file_hashes |-> ds.file_hashes]>>

\* What an interrupted pickle.dump leaves: the beginning of the object.
PartialDump == <<[obj |-> "partial"]>>

\* Variant: the table is taken from the file, the hash list starts empty.
PickleLoadFrameOnly(file) ==
    IF file.exists /\ Len(file.bytes) >= 1 /\ file.bytes[1].obj = "dict"
    THEN [ok |-> TRUE,
          value |-> [dataframe |-> file.bytes[1].dataframe, file_hashes |-> <<>>]]
    ELSE [ok |-> FALSE, value |-> EmptyDataset]

\* open(name, 'rb') and pickle.load(f); ok is FALSE when either raises
\* (no such file, or no complete pickled object in it).
PickleLoad(file) ==
    IF file.exists /\ Len(file.bytes) >= 1 /\ file.bytes[1].obj = "dict"
    THEN [ok |-> TRUE,
          value |-> [dataframe |-> file.bytes[1].dataframe,
                     file_hashes |-> file.bytes[1].file_hashes]]
    ELSE [ok |-> FALSE, value |-> EmptyDataset]

\* Variant: open(name, 'w'), which empties a file that is there.
OpenTruncate(file) == StoredFile(<<>>)

\* open(name, 'a'): creates an empty file when there is none, keeps the rest.
OpenAppend(file) == IF file.exists THEN file ELSE StoredFile(<<>>)

(***************************************************************************)
(* md5(fname): the digest depends on the bytes alone.                      *)
(***************************************************************************)
HexDigest(blob) == <<"md5", blob>>

md5(log) == HexDigest(FileSystem[log].blob)

(***************************************************************************)
(* The regular expressions of process_lines, filter_pkgs and read_logs.    *)
(***************************************************************************)
\* re.sub('/.*/.*/', '', path): greedy, from the first "/" to the last one,
\* when the path holds at least three of them.
StripDirs(path) ==
    LET sl == Positions(path, "/") IN
    IF Cardinality(sl) >= 3
    THEN SubSeq(path, 1, SetMin(sl) - 1) \o SubSeq(path, SetMax(sl) + 1, Len(path))
    ELSE path

\* Variant: the name ends at the first "-".
NameMatchFirstHyphen(tarball) ==
    LET hy == Positions(tarball, "-") IN
    IF Len(tarball) >= 1 /\ tarball[Len(tarball)] = ".tar.bz2" /\ Cardinality(hy) >= 2
    THEN [matched |-> TRUE, simplename |-> SubSeq(tarball, 1, SetMin(hy) - 1)]
    ELSE [matched |-> FALSE, simplename |-> <<>>]

\* re.compile('(?P<simplename>.*)-.*-.*\.tar\.bz2$').match(tarball): the
\* greedy group ends before the last but one "-"; None without two "-" or
\* without the suffix.
NameMatch(tarball) ==
    LET hy == Positions(tarball, "-") IN
    IF Len(tarball) >= 1 /\ tarball[Len(tarball)] = ".tar.bz2" /\ Cardinality(hy) >= 2
    THEN [matched |-> TRUE,
          simplename |-> SubSeq(tarball, 1, SetMax(hy \ {SetMax(hy)}) - 1)]
    ELSE [matched |-> FALSE, simplename |-> <<>>]

\* str.contains('bz2') on one value.
ContainsBz2(text) == \E i \in 1..Len(text) : text[i] \in {".tar.bz2", ".bz2", "bz2"}

RECURSIVE ReplaceCondaDev(_)
\* replace('/conda-dev', '/astroconda-dev', regex=True) on one value: every
\* occurrence, left to right.
ReplaceCondaDev(text) ==
    IF Len(text) = 0 THEN <<>>
    ELSE IF Len(text) >= 4 /\ SubSeq(text, 1, 4) = <<"/", "conda", "-", "dev">>
         THEN <<"/", "astroconda", "-", "dev">> \o ReplaceCondaDev(SubSeq(text, 5, Len(text)))
         ELSE <<text[1]>> \o ReplaceCondaDev(Tail(text))

(***************************************************************************)
(* process_lines                                                           *)
(***************************************************************************)
\* host in line: the address string occurs in the text of the line.
HostInLine(host, line) == line.matches /\ host = line.ipaddress

\* Lines 97-102, the loop over self.ignore_hosts, by the way it ends.  Its
\* continue belongs to this inner loop, so a host found in the line only
\* moves on to the next host; a None list raises TypeError, which is caught.
\* No way out of it goes to the next line of the file.
IgnoreLoop(line, ih) ==
    IF ~ih.given THEN "TypeError caught"
    ELSE IF \E i \in 1..Len(ih.hosts) : HostInLine(ih.hosts[i], line)
         THEN "hosts exhausted after a continue"
         ELSE "hosts exhausted"

\* The body of the for loop on one line.  raised names the exception that
\* leaves process_lines, "" when the loop goes on.
ProcessLine(line, binary) ==
    LET tarball   == StripDirs(line.path)
        namematch == NameMatch(tarball)
        none      == [raised |-> "", rows |-> <<>>, unparseable |-> 0]
    IN  IF binary /\ ~line.decodable
           THEN [none EXCEPT !.raised = "UnicodeDecodeError"]  \* line.decode("utf-8")
        ELSE IF IgnoreLoop(line, ignore_hosts) = "next line"
           THEN none
        ELSE IF ~line.matches
           THEN [none EXCEPT !.unparseable = 1]     \* None.group -> AttributeError
        ELSE IF ~line.dateok
           THEN [none EXCEPT !.raised = "ValueError"]          \* dpar.parse(date)
        ELSE IF ~namematch.matched
           THEN [none EXCEPT !.unparseable = 1]     \* None.group -> AttributeError
        ELSE IF line.size = NoSize
           THEN [none EXCEPT !.raised = "ValueError"]          \* int('')
        ELSE [none EXCEPT !.rows =
                 << [ipaddress |-> line.ipaddress, hostname |-> "",
                     date |-> line.date, time |-> line.time, path |-> line.path,
                     status |-> line.status, size |-> line.size,
                     name |-> namematch.simplename] >>]

RECURSIVE ProcessLoop(_, _, _)
ProcessLoop(lines, binary, acc) ==
    IF Len(lines) = 0 THEN acc
    ELSE LET r == ProcessLine(Head(lines), binary) IN
         IF r.raised # "" THEN [acc EXCEPT !.raised = r.raised]
         ELSE ProcessLoop(Tail(lines), binary,
                          [raised |-> "", rows |-> acc.rows \o r.rows,
                           unparseable |-> acc.unparseable + r.unparseable])

\* process_lines(f) on a file object: f.readlines() of a text-mode file
\* decodes every line before the loop starts.
process_lines(lines, binary) ==
    IF ~binary /\ \E i \in 1..Len(lines) : ~lines[i].decodable
    THEN [raised |-> "UnicodeDecodeError", rows |-> <<>>, unparseable |-> 0]
    ELSE ProcessLoop(lines, binary, [raised |-> "", rows |-> <<>>, unparseable |-> 0])

\* The with-blocks of read_logs: gzip.open for a name containing ".gz",
\* open(log, 'r') otherwise, and process_lines on the result.
OpenAndProcess(log) ==
    LET f    == FileSystem[log]
        blob == BlobTable[f.blob]
    IN  IF f.gzname
        THEN IF blob.gzip THEN process_lines(blob.lines, TRUE)
             ELSE [raised |-> "BadGzipFile", rows |-> <<>>, unparseable |-> 0]
        ELSE IF blob.gzip
             THEN [raised |-> "UnicodeDecodeError", rows |-> <<>>, unparseable |-> 0]
             ELSE process_lines(blob.lines, FALSE)

(***************************************************************************)
(* The table operations of read_logs.                                      *)
(***************************************************************************)
IsPkgPath(row) == ContainsBz2(row.path)

IsSuccess(row) == row.status = "200" \/ row.status = "302"

\* Variant: the status test is left out.
filter_pkgs_any_status(df) == SelectSeq(df, IsPkgPath)

\* filter_pkgs(df): rows whose path contains 'bz2', then status 200 or 302.
filter_pkgs(df) == SelectSeq(SelectSeq(df, IsPkgPath), IsSuccess)

\* The ways of putting row r into t, a table already ordered by date, that
\* keep it ordered by date.
InsertByDate(r, t) ==
    { SubSeq(t, 1, k) \o <<r>> \o SubSeq(t, k + 1, Len(t)) :
        k \in { j \in 0..Len(t) : /\ (j = 0 \/ t[j].date <= r.date)
                                  /\ (j = Len(t) \/ r.date <= t[j + 1].date) } }

RECURSIVE sort_values(_)
\* df.sort_values(by='date'): the default sort is not stable, so every
\* arrangement of the rows that is ordered by date is a possible result.
sort_values(df) ==
    IF Len(df) = 0 THEN {<<>>}
    ELSE UNION { InsertByDate(Head(df), t) : t \in sort_values(Tail(df)) }

\* Variant: drop_duplicates(keep=False), no copy of a repeated row is kept.
drop_all_copies(df) ==
    LET Once(row) == Cardinality({i \in 1..Len(df) : df[i] = row}) = 1
    IN  SelectSeq(df, Once)

RECURSIVE drop_duplicates(_)
\* df.drop_duplicates(): of rows equal in every column the first is kept.
drop_duplicates(df) ==
    IF Len(df) = 0 THEN <<>>
    ELSE LET init == drop_duplicates(SubSeq(df, 1, Len(df) - 1))
             last == df[Len(df)]
         IN  IF last \in Range(init) THEN init ELSE Append(init, last)

\* replace(...) on one row: the text columns that can hold a "/".
ReplaceRow(row) ==
    [row EXCEPT !.path = ReplaceCondaDev(@), !.name = ReplaceCondaDev(@)]

\* Variant: the table is left as it is.
replace_nothing(df) == df

\* df.replace('/conda-dev', '/astroconda-dev', regex=True)
replace(df) == [i \in 1..Len(df) |-> ReplaceRow(df[i])]

\* Lines 176-180 of read_logs: the results the batch can have.
PrepareBatch(df) == { replace(drop_duplicates(s)) : s \in sort_values(filter_pkgs(df)) }

\* Variant: the other table comes first.
append_front(df, other) == other \o df

\* df.append(other, ignore_index=True)
append(df, other) == df \o other

(***************************************************************************)
(* Initial state: nothing persisted, no process running.                   *)
(***************************************************************************)
NoRun == [ran |-> FALSE, held |-> EmptyDataset]

\* No dataframe.dat and no parsed_files.dat in the working directory.
NoOldFiles == [exists |-> FALSE, hashfile |-> [digests |-> <<>>, eol |-> FALSE], frame |-> <<>>]

InitFrom(ns, ps, hs, olds) ==
    /\ names = ns
    /\ paths = ps
    /\ hostlists = hs
    /\ disk = [n \in Names |-> Absent]
    /\ pc = "idle"
    /\ dataset_name = "a"
    /\ dataset = EmptyDataset
    /\ data = <<>>
    /\ logs = <<>>
    /\ idx = 1
    /\ newdata = <<>>
    /\ err = ""
    /\ unparseable = 0
    /\ writes = 0
    /\ ignore_hosts = NoHosts
    /\ loaded = EmptyDataset
    /\ disk0 = Absent
    /\ written = [n \in Names |-> NoRun]
    /\ fed = [n \in Names |-> {}]
    /\ oldfiles \in olds

InitWith(ns, ps, hs) == InitFrom(ns, ps, hs, {NoOldFiles})

\* One dataset name, every sample file.
Init == InitWith({"a"}, Paths, HostLists)

\* Two dataset names over the same files, to compare ways of batching them.
InitTwin == InitWith(Names, TwinPaths, {NoHosts})

InitCrash == InitWith({"a"}, CrashPaths, {NoHosts})

(***************************************************************************)
(* LogData.__init__ as main() calls it.                                    *)
(***************************************************************************)
Construct(name, hosts) ==
    /\ pc = "idle"
    /\ writes' = 0
    /\ ignore_hosts' = hosts
    /\ disk0' = disk[name]
    /\ LET r == PickleLoad(disk[name]) IN
       /\ dataset' = (IF r.ok THEN r.value ELSE EmptyDataset)
       /\ disk' = (IF r.ok THEN disk ELSE [disk EXCEPT ![name] = OpenAppend(@)])
    /\ dataset_name' = name
    /\ data' = dataset'.dataframe
    /\ loaded' = dataset'
    /\ pc' = "constructed"
    /\ UNCHANGED <<logs, idx, newdata, err, unparseable, names, paths, hostlists, oldfiles,
                   written, fed>>

(***************************************************************************)
(* read_logs: entry, one iteration of the for loop, and the merge.         *)
(***************************************************************************)
ReadLogsStart(files) ==
    /\ pc = "constructed"
    /\ UNCHANGED <<ignore_hosts, writes>>
    /\ logs' = SortedSeq(files)
    /\ idx' = 1
    /\ newdata' = <<>>
    /\ pc' = "reading"
    /\ UNCHANGED <<disk, dataset_name, dataset, data, err, unparseable, names, paths, hostlists, oldfiles,
                   loaded, disk0, written, fed>>

\* Variant: the exception is swallowed and main goes on to write_dataset.
RaiseAndSave(e) ==
    /\ err' = e
    /\ pc' = "read"
    /\ UNCHANGED <<dataset, data, idx, newdata, unparseable>>

\* Variant: no digest counts as seen.
AlreadyParsedNever(hashval, hashes) == FALSE

\* hashval in self.hashes
AlreadyParsed(hashval, hashes) == hashval \in Range(hashes)

Raise(e) ==
    /\ err' = e
    /\ pc' = "aborted"
    /\ UNCHANGED <<dataset, data, idx, newdata, unparseable>>

\* Variant: the digest is not recorded.
RegisterNothing(hashes, hashval) == hashes

\* self.hashes.append(hashval), once the file has been read.
Register(hashes, hashval) == Append(hashes, hashval)

ReadLogsFile ==
    /\ pc = "reading"
    /\ idx <= Len(logs)
    /\ LET log     == logs[idx]
           access  == FileSystem[log].access
           hashval == md5(log)
           r       == OpenAndProcess(log)
       IN  IF access = "missing" THEN Raise("FileNotFoundError")
           ELSE IF access = "denied" THEN Raise("PermissionError")
           ELSE IF AlreadyParsed(hashval, dataset.file_hashes)
           THEN /\ idx' = idx + 1
                /\ UNCHANGED <<dataset, data, newdata, err, unparseable, pc>>
           ELSE IF r.raised # "" THEN Raise(r.raised)
           ELSE /\ newdata' = append(newdata, r.rows)
                /\ dataset' = [dataset EXCEPT !.file_hashes = Register(@, hashval)]
                /\ unparseable' = r.unparseable
                /\ idx' = idx + 1
                /\ UNCHANGED <<data, err, pc>>
    /\ UNCHANGED <<disk, dataset_name, logs, ignore_hosts, names, paths, hostlists, oldfiles,
                   writes, loaded, disk0, written, fed>>

ReadLogsMerge ==
    /\ pc = "reading"
    /\ idx > Len(logs)
    /\ IF Len(newdata) # 0
       THEN \E batch \in PrepareBatch(newdata) :
               /\ data' = append(data, batch)
               /\ dataset' = [dataset EXCEPT !.dataframe = data']
       ELSE UNCHANGED <<data, dataset>>
    /\ pc' = "read"
    /\ UNCHANGED <<disk, dataset_name, logs, idx, newdata, err, unparseable, ignore_hosts, writes,
                   names, paths, hostlists, oldfiles, loaded, disk0, written, fed>>

(***************************************************************************)
(* write_dataset() as main() calls it, and the end of the process.         *)
(***************************************************************************)
\* open(dsname, 'wb'), the argument of pickle.dump: the file is emptied
\* (or created) before anything is written to it.
WriteOpen ==
    /\ pc = "read"
    /\ disk' = [disk EXCEPT ![dataset_name] = StoredFile(<<>>)]
    /\ writes' = writes + 1
    /\ pc' = "writing"
    /\ UNCHANGED <<dataset_name, dataset, data, logs, idx, newdata, err,
                   unparseable, ignore_hosts, names, paths, hostlists, oldfiles, loaded, disk0,
                   written, fed>>

\* pickle.dump(self.dataset, f) into the opened file.
WriteDataset ==
    /\ pc = "writing"
    /\ disk' = [disk EXCEPT ![dataset_name] = StoredFile(PickleDump(dataset))]
    /\ written' = [written EXCEPT ![dataset_name] = [ran |-> TRUE, held |-> dataset]]
    /\ pc' = "written"
    /\ UNCHANGED <<dataset_name, dataset, data, logs, idx, newdata, err,
                   unparseable, ignore_hosts, names, paths, hostlists, oldfiles, writes, loaded,
                   disk0, fed>>

\* The rest of main() (lines 279-490): windowing, statistics, the requests
\* to the package registries, the plots.  It reads logproc.data only; it
\* ends normally or with an exception (HTTPError, KeyError, ...).
Report ==
    /\ pc = "written"
    /\ \E e \in {"", "ReportError"} :
          /\ err' = e
          /\ pc' = (IF e = "" THEN "reported" ELSE "failed")
    /\ UNCHANGED <<disk, dataset_name, dataset, data, logs, idx, newdata,
                   unparseable, ignore_hosts, names, paths, hostlists, oldfiles, writes, loaded,
                   disk0, written, fed>>

\* The memory of a process that has ended.
Forget ==
    /\ pc' = "idle"
    /\ dataset' = EmptyDataset
    /\ data' = <<>>
    /\ logs' = <<>>
    /\ idx' = 1
    /\ newdata' = <<>>
    /\ err' = ""
    /\ unparseable' = 0
    /\ writes' = 0
    /\ ignore_hosts' = NoHosts
    /\ loaded' = EmptyDataset
    /\ disk0' = Absent
    /\ UNCHANGED <<dataset_name, names, paths, hostlists, oldfiles, written>>

Exit ==
    /\ pc \in {"reported", "failed", "aborted"}
    /\ fed' = (IF pc \in {"reported", "failed"}
               THEN [fed EXCEPT ![dataset_name] = @ \cup Range(logs)]
               ELSE fed)
    /\ Forget
    /\ UNCHANGED disk

\* The process is stopped from outside (a signal, a power cut) before it has
\* written the dataset; in the middle of write_dataset the file keeps what
\* had reached it: nothing, or the beginning of the pickled object.
Interrupt ==
    /\ pc \in {"constructed", "reading", "read", "writing"}
    /\ IF pc = "writing"
       THEN \E bytes \in {<<>>, PartialDump} :
               disk' = [disk EXCEPT ![dataset_name] = StoredFile(bytes)]
       ELSE UNCHANGED disk
    /\ Forget
    /\ UNCHANGED fed

Next ==
    \/ \E name \in names, hosts \in hostlists : Construct(name, hosts)
    \/ \E files \in SUBSET paths : Cardinality(files) <= MaxBatch /\ ReadLogsStart(files)
    \/ ReadLogsFile
    \/ ReadLogsMerge
    \/ WriteOpen
    \/ WriteDataset
    \/ Report
    \/ Exit

NextCrash == Next \/ Interrupt

Spec == Init /\ [][Next]_vars

SpecTwin == InitTwin /\ [][Next]_vars

\* Runs that may be stopped from outside at any point before the dataset is
\* written.
SpecCrash == InitCrash /\ [][NextCrash]_vars

(***************************************************************************)
(* Properties.                                                             *)
(***************************************************************************)
\* The dataset a new LogData would obtain from the file under name n.
Persisted(n) == PickleLoad(disk[n]).value

\* What a file with the given digest contributes to the stored table.
Contribution(hashval) ==
    LET blob == BlobTable[hashval[2]]
    IN  Range(replace(filter_pkgs(process_lines(blob.lines, blob.gzip).rows)))

NoRepeatedRow(df) == \A i, j \in 1..Len(df) : i # j => df[i] # df[j]

\* Row a is not later than row b, by date and then time of day.
NotLater(a, b) == a.date < b.date \/ (a.date = b.date /\ a.time <= b.time)

OrderedByTimestamp(df) == \A i, j \in 1..Len(df) : i < j => NotLater(df[i], df[j])

\* C1: a completed run whose files were all given to an earlier completed
\* run on the same dataset finds each digest in file_hashes, skips the file,
\* and leaves the persisted file exactly as it found it; a run that an
\* exception ended leaves the persisted dataset as it found it, so that
\* repeating it changes nothing either.
IdempotentRerun ==
    /\ pc = "aborted" => Persisted(dataset_name) = PickleLoad(disk0).value
    /\ (pc = "reading" /\ idx <= Len(logs) /\ logs[idx] \in fed[dataset_name])
          => md5(logs[idx]) \in Range(dataset.file_hashes)
    /\ (pc = "written" /\ Range(logs) \subseteq fed[dataset_name] /\ logs # <<>>)
          => disk[dataset_name] = disk0

IdempotentRerunWitness ==
    /\ pc = "written"
    /\ Len(logs) = 1
    /\ logs[1] \in fed[dataset_name]
    /\ Len(dataset.dataframe) > 0
    /\ disk[dataset_name] = disk0

\* C2: in every state of the in-memory dataset, each digest in file_hashes
\* belongs to a file whose filtered records are in the dataframe.
FingerprintImpliesRecords ==
    \A i \in 1..Len(dataset.file_hashes) :
        Contribution(dataset.file_hashes[i]) \subseteq Range(dataset.dataframe)

\* C3: no stored table, in memory or persisted, holds two equal rows.
NoDuplicateRecords ==
    /\ NoRepeatedRow(dataset.dataframe)
    /\ \A n \in Names : NoRepeatedRow(Persisted(n).dataframe)

\* C4: after read_logs has returned, the whole table is non-decreasing by
\* timestamp (date, then time of day).
SortedAfterReadLogs ==
    pc \in {"read", "written"} => OrderedByTimestamp(dataset.dataframe)

\* C5: every row of a stored table, in memory or persisted, has status 200
\* or 302 and a path containing the archive marker.
FilterInvariant ==
    \A df \in {dataset.dataframe} \cup {Persisted(n).dataframe : n \in Names} :
        \A i \in 1..Len(df) :
            /\ df[i].status \in {"200", "302"}
            /\ \E k \in 1..Len(df[i].path) : df[i].path[k] = ".tar.bz2"

FilterInvariantWitness ==
    /\ pc = "idle"
    /\ 1 \in fed["a"]
    /\ Len(Persisted("a").dataframe) > 0

EmptyBatchNoOp ==
    /\ (pc \in {"read", "written"} /\ logs = <<>>)
          => (dataset = loaded /\ data = loaded.dataframe)
    /\ (pc = "written" /\ logs = <<>>)
          => (PickleLoad(disk[dataset_name]).ok /\ Persisted(dataset_name) = loaded)
    /\ (pc = "written" /\ logs = <<>> /\ Len(loaded.dataframe) > 0)
          => disk[dataset_name] = disk0

EmptyBatchNoOpWitness ==
    /\ pc = "written"
    /\ logs = <<>>
    /\ Len(loaded.dataframe) > 0
    /\ Len(loaded.file_hashes) > 0

\* C8: a LogData constructed under a name obtains the dataset that the last
\* write_dataset under that name held, table and hash list both.
RoundTrip ==
    (pc = "constructed" /\ written[dataset_name].ran)
      => /\ dataset = written[dataset_name].held
         /\ data = written[dataset_name].held.dataframe

RoundTripWitness ==
    /\ pc = "constructed"
    /\ written[dataset_name].ran
    /\ Len(dataset.dataframe) > 0
    /\ Len(dataset.file_hashes) > 1

\* C9: a file that cannot be opened or decompressed does not end read_logs.
UnreadableFileSkipped ==
    err \notin {"FileNotFoundError", "PermissionError", "BadGzipFile"}

\* C10: no line of a readable file makes process_lines raise.
BadLineNeverAborts ==
    \A p \in Paths :
        (FileSystem[p].access = "ok" /\ FileSystem[p].gzname = BlobTable[FileSystem[p].blob].gzip)
          => ~(pc = "aborted" /\ logs[idx] = p)

\* C11: a line whose text contains a string of ignore_hosts gives no record.
IgnoredHostsSkipped ==
    ignore_hosts.given =>
        \A i \in 1..Len(newdata) : newdata[i].ipaddress \notin Range(ignore_hosts.hosts)

\* The positions of a run at which write_dataset has not been called.
PreWrite == {"constructed", "reading", "read", "aborted"}

AtomicSave ==
    \A n \in Names :
        written[n].ran =>
            /\ PickleLoad(disk[n]).ok
            /\ \/ Persisted(n) = written[n].held
               \/ (pc = "writing" /\ dataset_name = n /\ Persisted(n) = dataset)

\* C14: the constructor goes on with a synthesized empty dataset only when
\* there was no file under the name, and no run writes over a file that was
\* there and could not be loaded.
LoadErrorsSurfaced ==
    /\ (pc = "constructed" /\ ~PickleLoad(disk0).ok) => ~disk0.exists
    /\ writes > 0 => (~disk0.exists \/ PickleLoad(disk0).ok)

\* The text holds "/conda-dev".
HasCondaDev(text) ==
    \E k \in 1..(Len(text) - 3) : SubSeq(text, k, k + 3) = <<"/", "conda", "-", "dev">>

\* The rows the current run has added to the table.
MergedRows == SubSeq(data, Len(loaded.dataframe) + 1, Len(data))

\* C15: no stored path, in memory or persisted, holds "/conda-dev", so the
\* rewrite applied again changes none; and every row of a merged batch that
\* passed the filter with "/conda-dev/" in its path is in the table with the
\* path rewritten to "/astroconda-dev/".
ChannelNormalization ==
    /\ \A df \in {data, dataset.dataframe} \cup {Persisted(n).dataframe : n \in Names} :
          \A i \in 1..Len(df) :
              /\ ~HasCondaDev(df[i].path)
              /\ ReplaceCondaDev(df[i].path) = df[i].path
    /\ pc = "read" =>
          \A k \in 1..Len(newdata) :
              (HasCondaDev(newdata[k].path) /\ IsPkgPath(newdata[k]) /\ IsSuccess(newdata[k]))
                => \E j \in 1..Len(MergedRows) :
                      /\ MergedRows[j] = [newdata[k] EXCEPT !.path = MergedRows[j].path]
                      /\ MergedRows[j].path = ReplaceCondaDev(newdata[k].path)
                      /\ MergedRows[j].path # newdata[k].path

ChannelNormalizationWitness ==
    /\ pc = "written"
    /\ \E k \in 1..Len(newdata) : HasCondaDev(newdata[k].path)
    /\ \E j \in 1..Len(Persisted(dataset_name).dataframe) :
          Persisted(dataset_name).dataframe[j].path = MkPath(<<"astroconda", "-", "dev">>, Astropy)

\* The part of a request path after its last "/".
Filename(path) == SubSeq(path, SetMax(Positions(path, "/")) + 1, Len(path))

\* A filename without its last five parts: "-", version, "-", build, suffix.
DropVersionBuild(file) == SubSeq(file, 1, Len(file) - 5)

\* The line lacks nothing but the archive suffix at the end of its filename.
NotAPackage(line) ==
    /\ line.decodable /\ line.matches /\ line.dateok
    /\ Filename(line.path)[Len(Filename(line.path))] # ".tar.bz2"

\* C16: the name of every parsed row is the filename of its path without
\* the trailing -version-build.tar.bz2, hyphens inside the name kept; a line
\* whose filename lacks the suffix gives no row, is counted as unparseable
\* and does not make process_lines raise.
NameExtraction ==
    /\ \A i \in 1..Len(newdata) :
          LET file == Filename(newdata[i].path) IN
          /\ file[Len(file)] = ".tar.bz2"
          /\ newdata[i].name = DropVersionBuild(file)
    /\ \A b \in 1..Len(BlobTable) : \A k \in 1..Len(BlobTable[b].lines) :
          LET line == BlobTable[b].lines[k] IN
          NotAPackage(line) =>
              ProcessLine(line, BlobTable[b].gzip) = [raised |-> "", rows |-> <<>>, unparseable |-> 1]
    /\ \A p \in Paths :
          (pc = "reading" /\ idx > 1 /\ logs[idx - 1] = p
             /\ Len(dataset.file_hashes) > Len(loaded.file_hashes)
             /\ md5(p) = dataset.file_hashes[Len(dataset.file_hashes)]
             /\ \E k \in 1..Len(BlobTable[FileSystem[p].blob].lines) :
                    NotAPackage(BlobTable[FileSystem[p].blob].lines[k]))
            => unparseable >= 1

NameExtractionWitness ==
    /\ pc = "reading"
    /\ logs = <<1, 3>>
    /\ idx = 3
    /\ unparseable = 1
    /\ \E i \in 1..Len(newdata) : newdata[i].name = <<"numpy", "-", "base">>
    /\ \A i \in 1..Len(newdata) : newdata[i].path # LnRepodata.path

\* C17: the rows one read_logs call has added to the table, as stored, hold
\* no two equal rows.
WithinBatchDedup ==
    pc = "read" => NoRepeatedRow(MergedRows)

\* s is the beginning of t.
IsPrefix(s, t) == Len(s) <= Len(t) /\ SubSeq(t, 1, Len(s)) = s

\* The rows process_lines gives for the bytes a digest stands for.
RowsOf(hashval) ==
    process_lines(BlobTable[hashval[2]].lines, BlobTable[hashval[2]].gzip).rows

RECURSIVE RowsOfAll(_)
RowsOfAll(hashes) ==
    IF Len(hashes) = 0 THEN <<>>
    ELSE RowsOf(Head(hashes)) \o RowsOfAll(Tail(hashes))

\* The digests the current run has added to file_hashes.
NewHashes == SubSeq(dataset.file_hashes, Len(loaded.file_hashes) + 1, Len(dataset.file_hashes))

\* C18: file_hashes, in memory or persisted, never holds a digest twice; a
\* run keeps the list it loaded as the beginning of its own, and the list
\* last written under a name is the beginning of the list of every later
\* run on that name, so of the next list written; the rows a run has collected are those of one reading
\* per digest it has added, whatever the number of paths with those bytes.
FingerprintsAppendOnly ==
    /\ NoRepeatedRow(dataset.file_hashes)
    /\ \A n \in Names : NoRepeatedRow(Persisted(n).file_hashes)
    /\ IsPrefix(loaded.file_hashes, dataset.file_hashes)
    /\ (pc # "idle" /\ written[dataset_name].ran)
          => IsPrefix(written[dataset_name].held.file_hashes, dataset.file_hashes)
    /\ pc \in {"reading", "read", "writing", "written"} => newdata = RowsOfAll(NewHashes)

FingerprintsAppendOnlyWitness ==
    /\ pc = "read"
    /\ logs = <<1, 9>>
    /\ Len(loaded.file_hashes) = 1
    /\ Len(dataset.file_hashes) = 2
    /\ Len(newdata) = Len(RowsOf(md5(1)))

\* C19: the table a run loaded stays the beginning of the table it holds,
\* and after read_logs the table is the loaded one followed by the merged
\* batch.
ExistingRowsPrefix ==
    /\ IsPrefix(loaded.dataframe, data)
    /\ IsPrefix(loaded.dataframe, dataset.dataframe)
    /\ (pc = "read" /\ Len(newdata) # 0)
          => \E batch \in PrepareBatch(newdata) :
                /\ data = loaded.dataframe \o batch
                /\ dataset.dataframe = data
    /\ (pc = "read" /\ Len(newdata) = 0) => data = loaded.dataframe

ExistingRowsPrefixWitness ==
    /\ pc = "read"
    /\ Len(loaded.dataframe) > 0
    /\ Len(data) > Len(loaded.dataframe)
    /\ data[1] # data[Len(data)]

\* C20: a run calls write_dataset at most once, after read_logs has returned
\* and before the reporting phase, never once read_logs has raised; when the
\* reporting phase ends, by an exception or not, the file under the dataset
\* name holds the dataset read_logs returned.
OrderingOfRun ==
    /\ writes \in {0, 1}
    /\ pc \in PreWrite \cup {"idle"} => writes = 0
    /\ pc \in {"writing", "written", "reported", "failed"} => writes = 1
    /\ err \notin {"", "ReportError"} => writes = 0
    /\ pc \in {"reported", "failed"}
          => /\ PickleLoad(disk[dataset_name]).ok
             /\ Persisted(dataset_name) = dataset
             /\ IsPrefix(loaded.dataframe, Persisted(dataset_name).dataframe)
             /\ IsPrefix(loaded.file_hashes, Persisted(dataset_name).file_hashes)

OrderingOfRunWitness ==
    /\ pc = "failed"
    /\ err = "ReportError"
    /\ writes = 1
    /\ Len(newdata) > 0
    /\ Len(Persisted(dataset_name).dataframe) > Len(loaded.dataframe)

(***************************************************************************)
(* convertdata.py: the old-format files joined into the dataset format.    *)
(***************************************************************************)
\* parsed_files.dat, a text file with one hex digest per line; eol tells
\* whether its last line ends in a newline.
HashFile(digests, eol) == [digests |-> digests, eol |-> eol]

\* f.readlines() on a text file: the lines, each with its line ending.
readlines(f) ==
    [i \in 1..Len(f.digests) |->
        IF i < Len(f.digests) \/ f.eol THEN Append(f.digests[i], "\n") ELSE f.digests[i]]

\* The digest lists of the sample hash files.
OldDigests == {<<HexDigest(1)>>, <<HexDigest(1), HexDigest(2)>>}

\* dataframe.dat and parsed_files.dat as the old format kept them: the
\* digests of the parsed files and the table of their rows.
OldFileSets ==
    UNION { { [exists |-> TRUE, hashfile |-> HashFile(ds, eol), frame |-> f] :
                f \in PrepareBatch(RowsOfAll(ds)) } :
            ds \in OldDigests, eol \in BOOLEAN }

\* 'data.p', the name the converted dataset is written under and that is
\* then given to logparse as dataset_name.
ConvertedName == "a"

\* The log files given to the runs on a converted dataset.
MigratePaths == {1, 2, 3, 9}

InitMigrate == InitFrom({ConvertedName}, MigratePaths, {NoHosts}, OldFileSets)

\* The script, top to bottom, run while no logparse process is running.
ConvertData ==
    /\ pc = "idle"
    /\ oldfiles.exists
    /\ LET frame     == oldfiles.frame                  \* pd.read_pickle(datfile)
           hashes    == readlines(oldfiles.hashfile)
           converted == [dataframe |-> frame, file_hashes |-> hashes]
       IN  disk' = [disk EXCEPT ![ConvertedName] = StoredFile(PickleDump(converted))]
    /\ UNCHANGED <<pc, dataset_name, dataset, data, logs, idx, newdata, err,
                   unparseable, ignore_hosts, names, paths, hostlists, oldfiles,
                   writes, loaded, disk0, written, fed>>

NextMigrate == Next \/ ConvertData

\* Runs of logparse and of convertdata.py in any order.
SpecMigrate == InitMigrate /\ [][NextMigrate]_vars

\* The digests listed in the old hash file.
Listed == Range(oldfiles.hashfile.digests)

\* The running process has loaded a dataset that begins with the converted
\* hash list.
RunsOnConverted ==
    /\ oldfiles.exists
    /\ pc # "idle"
    /\ IsPrefix(readlines(oldfiles.hashfile), loaded.file_hashes)

\* C21: in a run on a converted dataset, the digest md5() returns for every
\* file listed in the old hash file is found in file_hashes, and the run
\* adds no listed digest anew.
MigrationKeepsDedup ==
    RunsOnConverted =>
        /\ \A p \in Paths :
              md5(p) \in Listed => AlreadyParsed(md5(p), dataset.file_hashes)
        /\ \A i \in 1..Len(NewHashes) : NewHashes[i] \notin Listed

====
